---- MODULE Spec2Model ----
(***************************************************************************)
(* Model of Ai_code/app/startup.py: the build-time script that pre-loads   *)
(* the DeepFace models (preload_deepface_models), lists the cached weight  *)
(* files (verify_weights) and exits.  The script is sequential; pc is the  *)
(* position of the interpreter.  The external library, the import system   *)
(* and the filesystem are the environment: every call into them either     *)
(* returns or raises one of the exception kinds of Faults.                  *)
(***************************************************************************)
EXTENDS Integers, Sequences, FiniteSets, TLC

VARIABLES
    pc,            \* position of the interpreter
    mainIdx,       \* statement of the entry point being run
    models,        \* the list `models`
    detectors,     \* the list `detectors`
    i, j,          \* positions of the two for loops
    imported,      \* outcome of `from deepface import DeepFace`
    probed,        \* outcome of the latest `from deepface.commons import functions`
    success,       \* the entry point's `success`
    calls,         \* history: the calls made, in order
    faults,        \* history: the exceptions the environment raised, in order
    out,           \* the lines printed
    dirExists,     \* ~/.deepface/weights exists
    entries,       \* its entries, in the order the directory hands them out
    weight_files,  \* verify_weights' `weight_files`
    exitCode,      \* the process's exit status, -1 while it runs
    uncaught       \* the exception that ended the process, if any

vars == <<pc, mainIdx, models, detectors, i, j, imported, probed, success,
          calls, faults, out, dirExists, entries, weight_files, exitCode, uncaught>>

(* ------------------------------ bounds --------------------------------- *)
MaxModels == 3
MaxDetectors == 2
MaxEntries == 7

(* --------------------------- program constants ------------------------- *)
\* weight_files[:5], len(weight_files) > 5, len(weight_files) - 5
ShownMax == 5

\* The identifiers of the models list, the commented-out ones included.
ModelNames == <<"Facenet", "VGG-Face", "OpenFace", "DeepFace">>

\* The identifiers of the detectors list, the commented-out ones included.
DetectorNames == <<"opencv", "ssd", "mtcnn", "retinaface">>

Min(a, b) == IF a < b THEN a ELSE b

\* The lists the script is run with: the first k identifiers, k >= 1
\* (k = 1 is the list as committed).
ModelLists ==
    {SubSeq(ModelNames, 1, k) : k \in 1..Min(MaxModels, Len(ModelNames))}

DetectorLists ==
    {SubSeq(DetectorNames, 1, k) : k \in 1..Min(MaxDetectors, Len(DetectorNames))}

(* ----------------------------- exceptions ------------------------------ *)
\* The exception kinds a call into the library raises (a missing module, a
\* failed download); both derive from Exception.
Faults == {"ImportError", "OSError"}

\* What the detector probe raises: it is an import statement, and it fails
\* when the library has no module deepface.commons.functions.
ProbeFaults == {"ImportError"}

\* Python's class hierarchy: the kinds an `except <class>` clause catches.
Caught(class, e) ==
    CASE class = "Exception" -> e \in {"ImportError", "OSError", "RuntimeError"}
      [] class = "ImportError" -> e = "ImportError"
      [] class = "OSError" -> e = "OSError"
      [] class = "RuntimeError" -> e = "RuntimeError"
      [] OTHER -> FALSE

(* ------------------------------- output -------------------------------- *)
\* A printed line: what it says, the identifier or file name it carries, the
\* number it carries, the exception it carries.
Line(tag, name, n) == [tag |-> tag, name |-> name, n |-> n, err |-> ""]
ErrLine(tag, name, e) == [tag |-> tag, name |-> name, n |-> 0, err |-> e]
Call(op, arg) == [op |-> op, arg |-> arg]

Banner(tag) == <<Line("rule", "", 0), Line(tag, "", 0), Line("rule", "", 0)>>

(* ----------------------------- filesystem ------------------------------ *)
File(name) == [name |-> name, kind |-> "file", nested |-> <<>>]
Dir(name, nested) == [name |-> name, kind |-> "dir", nested |-> nested]

EntryName(k) == "w" \o ToString(k)

\* The contents of ~/.deepface/weights before the script runs, in the
\* order the directory hands them out: n entries, all regular files but
\* possibly the d-th, a subdirectory that holds one file.
InitEntries ==
    UNION {
        {[k \in 1..n |->
            IF k # d THEN File(EntryName(k))
            ELSE Dir(EntryName(k), <<File(EntryName(k) \o "_inner")>>)]
            : d \in 0..n}
        : n \in 0..MaxEntries}

(* --------------------------- verify_weights ---------------------------- *)
\* weights_dir.glob("*"): the name of every entry directly inside the
\* directory, regular files and subdirectories alike, nothing below them.
Glob(es) == [k \in 1..Len(es) |-> es[k].name]

\* for weight_file in weight_files[:5]: print(weight_file.name)
Shown(files) == SubSeq(files, 1, Min(Len(files), ShownMax))

\* Faulty variant of MoreNotice: the test written >= instead of >.
MoreNoticeOffByOne(files) ==
    IF Len(files) >= ShownMax
    THEN <<Line("more", "", Len(files) - ShownMax)>>
    ELSE <<>>

\* if len(weight_files) > 5: print("... and {len - 5} more")
MoreNotice(files) ==
    IF Len(files) > ShownMax
    THEN <<Line("more", "", Len(files) - ShownMax)>>
    ELSE <<>>

\* The lines of the `if weights_dir.exists()` branch.
FoundLines(files) ==
    <<Line("found", "", Len(files))>>
    \o [k \in 1..Len(Shown(files)) |-> Line("file", Shown(files)[k], 0)]
    \o MoreNotice(files)

\* Faulty variant of VerifyHandler: only filesystem errors are caught.
VerifyHandlerNarrow == "OSError"

\* The handler of verify_weights: except Exception.
VerifyHandler == "Exception"

\* What the environment raises at point p of verify_weights: Path.home()
\* when the home directory cannot be resolved, exists() and glob() when the
\* directory cannot be read.
VerifyFaults(p) ==
    CASE p = "none" -> {"none"}
      [] p = "Path.home" -> {"RuntimeError"}
      [] p = "exists" -> {"OSError"}
      [] p = "glob" -> {"OSError"}

\* Faulty variant of VerifyBody: the directory is enumerated without asking
\* whether it exists.
VerifyBodyNoExistsCheck(exists, es, p, e) ==
    IF p = "Path.home"
    THEN [calls |-> <<Call("Path.home", "")>>, lines |-> <<>>,
          files |-> <<>>, raised |-> e]
    ELSE IF p = "glob"
    THEN [calls |-> <<Call("Path.home", ""), Call("glob", "")>>,
          lines |-> <<>>, files |-> <<>>, raised |-> e]
    ELSE [calls |-> <<Call("Path.home", ""), Call("glob", "")>>,
          lines |-> FoundLines(Glob(es)), files |-> Glob(es), raised |-> "none"]

\* The body of verify_weights' try block with the environment's fault (none,
\* or exception e raised at point p): the calls made, the lines printed, the
\* glob result and the exception leaving the try block.
VerifyBody(exists, es, p, e) ==
    IF p = "Path.home"
    THEN [calls |-> <<Call("Path.home", "")>>, lines |-> <<>>,
          files |-> <<>>, raised |-> e]
    ELSE IF p = "exists"
    THEN [calls |-> <<Call("Path.home", ""), Call("exists", "")>>,
          lines |-> <<>>, files |-> <<>>, raised |-> e]
    ELSE IF ~exists
    THEN [calls |-> <<Call("Path.home", ""), Call("exists", "")>>,
          lines |-> <<Line("weights_dir_not_found", "", 0)>>,
          files |-> <<>>, raised |-> "none"]
    ELSE IF p = "glob"
    THEN [calls |-> <<Call("Path.home", ""), Call("exists", ""), Call("glob", "")>>,
          lines |-> <<>>, files |-> <<>>, raised |-> e]
    ELSE [calls |-> <<Call("Path.home", ""), Call("exists", ""), Call("glob", "")>>,
          lines |-> FoundLines(Glob(es)), files |-> Glob(es), raised |-> "none"]

(* ------------------------------- __main__ ------------------------------ *)
\* Faulty variant of MainOrder: the two calls swapped.
MainOrderVerifyFirst == <<"verify", "preload", "report">>

\* The statements of the entry point, in order.
MainOrder == <<"preload", "verify", "report">>

Entry(step) ==
    CASE step = "preload" -> "import"
      [] step = "verify" -> "verify"
      [] step = "report" -> "report"

\* Faulty variant of StatusLine: the success message in both branches.
StatusLineAlwaysOk(s) == Line("completed_successfully", "", 0)

\* if success: "completed successfully" else: "completed with warnings"
StatusLine(s) ==
    IF s = "True"
    THEN Line("completed_successfully", "", 0)
    ELSE Line("completed_with_warnings", "", 0)

\* Faulty variant of ExitStatus: the warning branch exits 1.
ExitStatusFailOnWarning(s) == IF s = "True" THEN 0 ELSE 1

\* sys.exit(0) in both branches.
ExitStatus(s) == IF s = "True" THEN 0 ELSE 0

\* A component returns to the entry point, which goes on to its next statement.
ReturnToMain ==
    /\ mainIdx' = mainIdx + 1
    /\ pc' = Entry(MainOrder[mainIdx + 1])
    /\ UNCHANGED <<exitCode, uncaught>>

\* An exception leaves the component: the interpreter prints the traceback
\* and the process ends with status 1.
Propagate(e) ==
    /\ pc' = "crashed"
    /\ exitCode' = 1
    /\ uncaught' = e
    /\ UNCHANGED mainIdx

(* ----------------------- preload_deepface_models ----------------------- *)
\* Faulty variant of ModelHandler: only download errors are caught.
ModelHandlerNarrow == "OSError"

\* except Exception around DeepFace.build_model(model_name)
ModelHandler == "Exception"

\* except Exception around the detector probe
DetectorHandler == "Exception"

\* Faulty variant of PreloadHandlers: the catch-all clause is missing.
PreloadHandlersImportOnly == <<"ImportError", "ImportError">>

\* The outer handlers of preload_deepface_models, in order:
\* except ImportError, except Exception.
PreloadHandlers == <<"ImportError", "Exception">>

\* An exception e reaches the outer try of preload_deepface_models.
PreloadExcept(e) ==
    IF Caught(PreloadHandlers[1], e)
    THEN [raised |-> "none", lines |-> <<Line("not_installed", "", 0)>>]
    ELSE IF Caught(PreloadHandlers[2], e)
    THEN [raised |-> "none", lines |-> <<ErrLine("preload_error", "", e)>>]
    ELSE [raised |-> e, lines |-> <<>>]

\* The rest of the function once e is raised inside the outer try, after
\* `printed` has been written: return False, or let e through.
PreloadRaise(e, printed) ==
    LET h == PreloadExcept(e) IN
    /\ out' = out \o printed \o h.lines
    /\ IF h.raised = "none"
       THEN success' = "False" /\ ReturnToMain
       ELSE success' = success /\ Propagate(h.raised)

\* build_model's side effect on the cache: the weight file of the model is
\* in ~/.deepface/weights afterwards.
Cache(es, name) ==
    IF \E k \in 1..Len(es) : es[k].name = name THEN es ELSE Append(es, File(name))

(* ------------------------------- state --------------------------------- *)
Init ==
    /\ pc = "start"
    /\ mainIdx = 0
    /\ models \in ModelLists
    /\ detectors \in DetectorLists
    /\ i = 1
    /\ j = 1
    /\ imported = "pending"
    /\ probed = "pending"
    /\ success = "unset"
    /\ calls = <<>>
    /\ faults = <<>>
    /\ out = <<>>
    /\ dirExists \in BOOLEAN
    /\ entries \in (IF dirExists THEN InitEntries ELSE {<<>>})
    /\ weight_files = <<>>
    /\ exitCode = -1
    /\ uncaught = "none"

(* ------------------------------ actions -------------------------------- *)
\* if __name__ == "__main__": the first print, then the first statement.
Main ==
    /\ pc = "start"
    /\ out' = Append(out, Line("startup", "", 0))
    /\ mainIdx' = 1
    /\ pc' = Entry(MainOrder[1])
    /\ UNCHANGED <<models, detectors, i, j, imported, probed, success, calls, faults,
                   dirExists, entries, weight_files, exitCode, uncaught>>

\* preload_deepface_models up to the first loop: the banner, then
\* `from deepface import DeepFace`, which succeeds or raises.
ImportDeepFace ==
    /\ pc = "import"
    /\ calls' = calls \o <<Call("preload_deepface_models", ""), Call("import", "deepface")>>
    /\ \E r \in {"ok"} \cup Faults :
        /\ imported' = r
        /\ faults' = IF r = "ok" THEN faults ELSE Append(faults, Call("import", r))
        /\ IF r = "ok"
           THEN /\ out' = out \o Banner("preload_start")
                            \o <<Line("preloading_models", "", Len(models))>>
                /\ pc' = "models"
                /\ UNCHANGED <<mainIdx, success, exitCode, uncaught>>
           ELSE PreloadRaise(r, Banner("preload_start"))
    /\ i' = 1
    /\ j' = 1
    /\ UNCHANGED <<models, detectors, probed, dirExists, entries, weight_files>>

\* One iteration of `for model_name in models`.
BuildModel ==
    /\ pc = "models"
    /\ i <= Len(models)
    /\ LET model_name == models[i] IN
       /\ calls' = Append(calls, Call("build_model", model_name))
       /\ \E r \in {"ok"} \cup Faults :
            IF r = "ok"
            THEN /\ UNCHANGED faults
                 /\ out' = out \o <<Line("loading", model_name, 0),
                                    Line("loaded", model_name, 0)>>
                 /\ dirExists' = TRUE
                 /\ entries' = Cache(entries, model_name)
                 /\ i' = i + 1
                 /\ UNCHANGED <<pc, mainIdx, success, exitCode, uncaught>>
            ELSE /\ faults' = Append(faults, Call("build_model", r))
                 /\ UNCHANGED <<dirExists, entries>>
                 /\ IF Caught(ModelHandler, r)
                    THEN /\ out' = out \o <<Line("loading", model_name, 0),
                                            ErrLine("load_failed", model_name, r)>>
                         /\ i' = i + 1
                         /\ UNCHANGED <<pc, mainIdx, success, exitCode, uncaught>>
                    ELSE /\ PreloadRaise(r, <<Line("loading", model_name, 0)>>)
                         /\ UNCHANGED i
    /\ UNCHANGED <<models, detectors, j, imported, probed, weight_files>>

\* The model loop is over: the header of the detector loop.
StartDetectors ==
    /\ pc = "models"
    /\ i > Len(models)
    /\ out' = Append(out, Line("preloading_detectors", "", Len(detectors)))
    /\ pc' = "detectors"
    /\ UNCHANGED <<mainIdx, models, detectors, i, j, imported, probed, success,
                   calls, faults, dirExists, entries, weight_files, exitCode, uncaught>>

\* One iteration of `for detector in detectors`: the probe is
\* `from deepface.commons import functions`; once the module is imported the
\* import system hands it out again without running anything.
ProbeDetector ==
    /\ pc = "detectors"
    /\ j <= Len(detectors)
    /\ LET detector == detectors[j] IN
       /\ calls' = Append(calls, Call("probe", detector))
       /\ \E r \in (IF probed = "ok" THEN {"ok"} ELSE {"ok"} \cup ProbeFaults) :
            /\ probed' = r
            /\ faults' = IF r = "ok" THEN faults ELSE Append(faults, Call("probe", r))
            /\ IF r = "ok"
               THEN /\ out' = out \o <<Line("loading_detector", detector, 0),
                                       Line("detector_available", detector, 0)>>
                    /\ j' = j + 1
                    /\ UNCHANGED <<pc, mainIdx, success, exitCode, uncaught>>
               ELSE IF Caught(DetectorHandler, r)
               THEN /\ out' = out \o <<Line("loading_detector", detector, 0),
                                       Line("detector_deferred", detector, 0)>>
                    /\ j' = j + 1
                    /\ UNCHANGED <<pc, mainIdx, success, exitCode, uncaught>>
               ELSE /\ PreloadRaise(r, <<Line("loading_detector", detector, 0)>>)
                    /\ UNCHANGED j
    /\ UNCHANGED <<models, detectors, i, imported, dirExists, entries, weight_files>>

\* Both loops are over: the closing banner and `return True`.
PreloadComplete ==
    /\ pc = "detectors"
    /\ j > Len(detectors)
    /\ out' = out \o Banner("preload_complete")
    /\ success' = "True"
    /\ ReturnToMain
    /\ UNCHANGED <<models, detectors, i, j, imported, probed, calls, faults,
                   dirExists, entries, weight_files>>

\* verify_weights, whole: the try block, then its handler.
VerifyWeights ==
    /\ pc = "verify"
    /\ \E p \in {"none", "Path.home", "exists", "glob"} :
       \E e \in VerifyFaults(p) :
         LET b == VerifyBody(dirExists, entries, p, e) IN
         /\ calls' = calls \o <<Call("verify_weights", "")>> \o b.calls
         /\ weight_files' = b.files
         /\ faults' = IF b.raised = "none" THEN faults
                      ELSE Append(faults, Call(p, b.raised))
         /\ IF b.raised = "none"
            THEN out' = out \o b.lines /\ ReturnToMain
            ELSE IF Caught(VerifyHandler, b.raised)
            THEN out' = out \o b.lines \o <<ErrLine("could_not_verify", "", b.raised)>>
                 /\ ReturnToMain
            ELSE out' = out \o b.lines /\ Propagate(b.raised)
    /\ UNCHANGED <<models, detectors, i, j, imported, probed, success,
                   dirExists, entries>>

\* The status line and sys.exit.
Report ==
    /\ pc = "report"
    /\ out' = Append(out, StatusLine(success))
    /\ calls' = Append(calls, Call("sys.exit", ""))
    /\ exitCode' = ExitStatus(success)
    /\ pc' = "exited"
    /\ UNCHANGED <<mainIdx, models, detectors, i, j, imported, probed, success,
                   faults, dirExists, entries, weight_files, uncaught>>

Next ==
    \/ Main
    \/ ImportDeepFace
    \/ BuildModel
    \/ StartDetectors
    \/ ProbeDetector
    \/ PreloadComplete
    \/ VerifyWeights
    \/ Report

Spec == Init /\ [][Next]_vars

TypeOK ==
    /\ pc \in {"start", "import", "models", "detectors", "verify", "report",
               "exited", "crashed"}
    /\ success \in {"unset", "True", "False"}
    /\ exitCode \in {-1, 0, 1}
    /\ i \in 1..(Len(models) + 1)
    /\ j \in 1..(Len(detectors) + 1)

(* ------------------------- reading the histories ----------------------- *)
IsOp(ops, c) == c.op \in ops
HasTag(tags, l) == l.tag \in tags

CallsOf(ops) == SelectSeq(calls, LAMBDA c : IsOp(ops, c))
FaultsAt(ops) == SelectSeq(faults, LAMBDA c : IsOp(ops, c))
LinesOf(tags) == SelectSeq(out, LAMBDA l : HasTag(tags, l))
ArgsOf(ops) == [k \in 1..Len(CallsOf(ops)) |-> CallsOf(ops)[k].arg]

PreloadOps == {"preload_deepface_models", "import", "build_model", "probe"}
VerifyOps == {"verify_weights", "Path.home", "exists", "glob"}
VerifyTags == {"found", "file", "more", "weights_dir_not_found", "could_not_verify"}
ErrorTags == {"not_installed", "preload_error", "load_failed", "detector_deferred",
              "could_not_verify"}
StatusTags == {"completed_successfully", "completed_with_warnings"}

\* What verify_weights printed.
VerifyOut == LinesOf(VerifyTags)

\* verify_weights has run and nothing was raised inside it.
VerifiedClean == CallsOf({"verify_weights"}) # <<>> /\ FaultsAt(VerifyOps) = <<>>

(* -------------------------------- claims ------------------------------- *)
\* C1: the process never ends with a non-zero status or an uncaught
\* exception: whatever the import, the build_model calls, the detector probes
\* and the weights-directory enumeration do, the script keeps going until
\* sys.exit and the status it exits with is 0.
C1_AlwaysExitsZero ==
    /\ uncaught = "none"
    /\ pc # "crashed"
    /\ exitCode \in {-1, 0}
    /\ (pc = "exited" <=> exitCode = 0)
    /\ (pc # "exited" => ENABLED Next)

\* A run that exits 0 after a failed model load, a failed probe and a failed
\* enumeration.
C1_Witness ==
    /\ pc = "exited"
    /\ exitCode = 0
    /\ FaultsAt({"build_model"}) # <<>>
    /\ FaultsAt({"probe"}) # <<>>
    /\ FaultsAt({"glob"}) # <<>>

\* C2: preload_deepface_models returns True exactly when the import
\* succeeded: once it has returned, success is True iff the import was ok,
\* whatever the model loads and probes did, and it has returned whenever the
\* entry point is past it.
C2_TrueIffImported ==
    /\ (success # "unset" => (success = "True" <=> imported = "ok"))
    /\ (pc \in {"verify", "report", "exited"} => success # "unset")
    /\ (imported \in Faults => success = "False")

\* The import succeeded, every model failed to load, a probe failed, and the
\* function returned True.
C2_Witness ==
    /\ success = "True"
    /\ Len(models) >= 2
    /\ Len(FaultsAt({"build_model"})) = Len(models)
    /\ FaultsAt({"probe"}) # <<>>

\* C3: when the import fails the preloader is skipped: it returns False, no
\* build_model call and no detector probe is ever made, the failure is
\* reported, and the entry point goes on to verify_weights and exits 0.
C3_ImportFailureSkips ==
    imported \in Faults =>
        /\ success = "False"
        /\ CallsOf({"build_model", "probe"}) = <<>>
        /\ Len(LinesOf({"not_installed", "preload_error"})) = 1
        /\ LinesOf({"loading", "loaded", "load_failed", "loading_detector",
                    "detector_available", "detector_deferred",
                    "preload_complete"}) = <<>>
        /\ pc \in {"verify", "report", "exited"}
        /\ (pc \in {"report", "exited"} => Len(CallsOf({"verify_weights"})) = 1)
        /\ (pc = "exited" => exitCode = 0)
        /\ (pc # "exited" => exitCode = -1)

\* The library is missing (not an ImportError), the verifier has run, the
\* process has exited 0.
C3_Witness ==
    /\ imported = "OSError"
    /\ pc = "exited"
    /\ exitCode = 0
    /\ Len(CallsOf({"verify_weights"})) = 1

\* C4: with the library imported, build_model is attempted exactly once per
\* identifier, in list order: the attempts so far are the identifiers before
\* position i, a failed attempt is logged with its identifier and error and
\* moves on to the next identifier, and once the loop is over the attempts
\* are the whole list and the step completes with True.
C4_EveryModelAttemptedOnce ==
    imported = "ok" =>
        LET attempts == ArgsOf({"build_model"})
            failed == LinesOf({"load_failed"})
            raised == FaultsAt({"build_model"})
        IN  /\ attempts = SubSeq(models, 1, i - 1)
            /\ (pc # "models" => attempts = models)
            /\ pc # "crashed"
            /\ (pc \in {"verify", "report", "exited"} => success = "True")
            /\ Len(failed) = Len(raised)
            /\ \A k \in 1..Len(failed) :
                  /\ failed[k].err = raised[k].arg
                  /\ \E m \in 1..Len(models) : failed[k].name = models[m]
            /\ Len(LinesOf({"loaded"})) + Len(failed) = i - 1

\* Three identifiers, the first failed, the second loaded, the third failed,
\* and the step completed.
C4_Witness ==
    /\ Len(models) = 3
    /\ pc = "exited"
    /\ LinesOf({"loaded", "load_failed"}) =
          <<ErrLine("load_failed", models[1], "OSError"),
            Line("loaded", models[2], 0),
            ErrLine("load_failed", models[3], "ImportError")>>

\* C5: when the directory exists and is enumerated, verify_weights prints
\* the number n of entries, then the first min(n, 5) names in enumeration
\* order, then "and n - 5 more" if and only if n > 5, and nothing else.
C5_CountFirstFiveAndMore ==
    (VerifiedClean /\ dirExists) =>
        LET n == Len(entries)
            shown == IF n < 5 THEN n ELSE 5
        IN  /\ Len(VerifyOut) = 1 + shown + (IF n > 5 THEN 1 ELSE 0)
            /\ VerifyOut[1] = Line("found", "", n)
            /\ \A k \in 1..shown : VerifyOut[1 + k] = Line("file", entries[k].name, 0)
            /\ (n > 5 => VerifyOut[Len(VerifyOut)] = Line("more", "", n - 5))
            /\ (LinesOf({"more"}) # <<>> <=> n > 5)

\* Seven entries: five names and "2 more".
C5_Witness ==
    /\ VerifiedClean
    /\ Len(entries) = 7
    /\ Len(LinesOf({"file"})) = 5
    /\ LinesOf({"more"}) = <<Line("more", "", 2)>>

\* C6: verify_weights does not crash on an absent or empty cache: with no
\* directory it prints the not-found warning and nothing else, with an empty
\* directory it prints a count of 0 and nothing else, and both times it
\* returns to the entry point.
C6_AbsentOrEmptyCache ==
    VerifiedClean =>
        /\ (~dirExists => VerifyOut = <<Line("weights_dir_not_found", "", 0)>>)
        /\ ((dirExists /\ entries = <<>>) => VerifyOut = <<Line("found", "", 0)>>)
        /\ ((~dirExists \/ entries = <<>>) =>
              /\ pc \in {"report", "exited"}
              /\ uncaught = "none"
              /\ weight_files = <<>>)

\* The directory is absent and the warning was printed.
C6_Witness ==
    /\ VerifiedClean
    /\ ~dirExists
    /\ pc = "exited"
    /\ LinesOf({"weights_dir_not_found"}) # <<>>

\* The directory is there and empty and the count printed is 0.
C6_WitnessEmpty ==
    /\ VerifiedClean
    /\ dirExists
    /\ entries = <<>>
    /\ pc = "exited"

\* C7: no exception leaves preload_deepface_models or verify_weights: every
\* exception raised by the import, a build_model call, a probe or the
\* enumeration is answered by one logged line, in order, and the component
\* goes on or returns to the entry point, which moves to its next statement.
C7_NeverRaises ==
    /\ uncaught = "none"
    /\ pc # "crashed"
    /\ LET logged == LinesOf(ErrorTags) IN
       /\ Len(logged) = Len(faults)
       /\ \A k \in 1..Len(faults) :
             logged[k].tag \in
                 CASE faults[k].op = "import" -> {"not_installed", "preload_error"}
                   [] faults[k].op = "build_model" -> {"load_failed"}
                   [] faults[k].op = "probe" -> {"detector_deferred"}
                   [] OTHER -> {"could_not_verify"}
    /\ (imported \in Faults => pc \in {"verify", "report", "exited"})
    /\ (FaultsAt(VerifyOps) # <<>> => pc \in {"report", "exited"})
    /\ (pc \in {"report", "exited"} => success # "unset")

\* A run in which a model load, a probe and Path.home() raised, and the entry
\* point reached its exit call.
C7_Witness ==
    /\ pc = "exited"
    /\ FaultsAt({"build_model"}) # <<>>
    /\ FaultsAt({"probe"}) # <<>>
    /\ FaultsAt({"Path.home"}) # <<>>

\* C8: the count and the names listed cover exactly the regular files
\* directly inside the weights directory: no entry of a nested subdirectory,
\* and no subdirectory counted or listed as a weight file.
C8_OnlyDirectRegularFiles ==
    (VerifiedClean /\ dirExists) =>
        LET direct == {k \in 1..Len(entries) : entries[k].kind = "file"}
            listed == LinesOf({"file"})
        IN  /\ LinesOf({"found"}) = <<Line("found", "", Cardinality(direct))>>
            /\ \A k \in 1..Len(listed) :
                  \E d \in direct : listed[k].name = entries[d].name

\* C9: the preloader runs once, then the verifier runs once: nothing of the
\* preloader happens after verify_weights is entered, every build_model
\* attempt precedes every probe, and at exit both have run exactly once,
\* whether the preloader returned True or False.
C9_PreloadThenVerifyOnce ==
    /\ Len(CallsOf({"preload_deepface_models"})) <= 1
    /\ Len(CallsOf({"verify_weights"})) <= 1
    /\ \A p \in 1..Len(calls) : \A q \in (p + 1)..Len(calls) :
          /\ ~(calls[p].op \in VerifyOps /\ calls[q].op \in PreloadOps)
          /\ ~(calls[p].op = "probe" /\ calls[q].op = "build_model")
          /\ calls[p].op # "sys.exit"
    /\ (pc \in {"verify", "report", "exited"} =>
          /\ Len(CallsOf({"preload_deepface_models"})) = 1
          /\ success # "unset")
    /\ (pc \in {"report", "exited"} => Len(CallsOf({"verify_weights"})) = 1)

\* A finished run with several model loads, several probes and an
\* enumeration after them.
C9_Witness ==
    /\ pc = "exited"
    /\ Len(CallsOf({"build_model"})) >= 2
    /\ Len(CallsOf({"probe"})) >= 2
    /\ calls[Len(calls) - 1].op = "glob"

\* C10: the status line follows the preloader's return value alone: it is
\* printed once, last, and says "completed successfully" iff success is True,
\* so with the import ok it says so even when every load failed or the
\* weights could not be listed.
C10_StatusFollowsSuccess ==
    /\ (pc # "exited" => LinesOf(StatusTags) = <<>>)
    /\ (pc = "exited" =>
          /\ Len(LinesOf(StatusTags)) = 1
          /\ out[Len(out)].tag \in StatusTags
          /\ (out[Len(out)].tag = "completed_successfully" <=> success = "True")
          /\ (imported = "ok" => out[Len(out)].tag = "completed_successfully")
          /\ (imported \in Faults => out[Len(out)].tag = "completed_with_warnings"))

\* Every model failed to load, the weights directory is missing, and the
\* script reports "completed successfully".
C10_Witness ==
    /\ pc = "exited"
    /\ Len(FaultsAt({"build_model"})) = Len(models)
    /\ LinesOf({"weights_dir_not_found"}) # <<>>
    /\ out[Len(out)].tag = "completed_successfully"

====
